---- MODULE Spec2Model ----
(***************************************************************************)
(* Gramofon tools: the JSON-RPC envelope handling of the client classes,   *)
(* the device probe (check_ip_is_gramofon) and the concurrent subnet scan  *)
(* (scan_network) of gramofon_discovery.py.                                *)
(***************************************************************************)
EXTENDS Integers, Sequences, FiniteSets, TLC

(***************************************************************************)
(* Bounds of the model.                                                    *)
(***************************************************************************)
\* width of an address in bits (IPv4 has 32; the arithmetic is the same)
AddrBits == 3
\* largest number of usable hosts of a range handed to scan_network
MaxHosts == 6
\* the max_workers argument of scan_network
MaxWorkers == 2

(***************************************************************************)
(* Python values that travel through the RPC layer.  A dict is a set of    *)
(* <<key, value>> pairs; "other" is any truthy value that is not a dict    *)
(* (a number, a list), on which `in` or .get raise.                        *)
(***************************************************************************)
PyNone == [t |-> "none", d |-> {}]
PyDict(d) == [t |-> "dict", d |-> d]
PyOther == [t |-> "other", d |-> {}]

\* Python truthiness: None and {} are falsy
Truthy(v) == v.t = "other" \/ (v.t = "dict" /\ v.d # {})

HasKey(v, k) == \E p \in v.d : p[1] = k
DictGet(v, k, default) ==
    IF HasKey(v, k) THEN (CHOOSE p \in v.d : p[1] = k)[2] ELSE default

NoneStr == "<None>"
Unknown == "Unknown"
ZeroSid == "00000000000000000000000000000000"

(***************************************************************************)
(* The outcome of one HTTP exchange.                                       *)
(*   neterr  : requests.post raised (timeout, connection refused)          *)
(*   nonjson : the body is not JSON, response.json() raised                *)
(*   json    : a JSON object; `error` tells whether it has an "error" key, *)
(*             len is the length of its "result" array (0 when the key is  *)
(*             missing), code is result[0], payload is result[1]           *)
(* httpOk is FALSE for a 4xx/5xx status line.                              *)
(***************************************************************************)
NetErr == [kind |-> "neterr", httpOk |-> TRUE, error |-> FALSE, len |-> 0,
           code |-> 0, payload |-> PyNone]
NonJson == [kind |-> "nonjson", httpOk |-> TRUE, error |-> FALSE, len |-> 0,
            code |-> 0, payload |-> PyNone]
Json(http, err, len, code, payload) ==
    [kind |-> "json", httpOk |-> http, error |-> err, len |-> len,
     code |-> code, payload |-> payload]

\* status codes a device answers with: 0 is success
StatusCodes == {0, 1}

\* the responses of a device whose payloads are drawn from `payloads`
Responses(payloads) ==
    {NetErr, NonJson}
    \cup {Json(TRUE, e, 0, 0, PyNone) : e \in BOOLEAN}
    \cup {Json(TRUE, e, 1, c, PyNone) : e \in BOOLEAN, c \in StatusCodes}
    \cup {Json(TRUE, FALSE, 2, c, p) : c \in StatusCodes, p \in payloads}

Payloads(key, values) ==
    {PyNone, PyOther, PyDict({}), PyDict({<<"other", "x">>})}
    \cup {PyDict({<<key, v>>}) : v \in values}

\* the session tokens of the hosts: every host issues a token of its own
SidTable ==
    <<"sid00", "sid01", "sid02", "sid03", "sid04", "sid05", "sid06", "sid07",
      "sid08", "sid09", "sid10", "sid11", "sid12", "sid13", "sid14", "sid15",
      "sid16", "sid17", "sid18", "sid19", "sid20", "sid21", "sid22", "sid23",
      "sid24", "sid25", "sid26", "sid27", "sid28", "sid29", "sid30", "sid31">>
SidOf(ip) == SidTable[(ip % Len(SidTable)) + 1]

\* what the host at ip may answer to a login
LoginResponses(ip) == Responses(Payloads("sid", {SidOf(ip)}))
NameResponses == Responses(Payloads("spotifyname", {"Gramofon"}))
MacResponses == Responses(Payloads("fonmac", {"aa:bb"}))

(***************************************************************************)
(* The result of a Python call: a returned value or a raised exception.    *)
(* err is the second element of the pair jsonrpc_call of gramofon_set_name *)
(* returns: TRUE when it is an error object, FALSE when it is None.        *)
(***************************************************************************)
Return(v) == [exc |-> FALSE, val |-> v, err |-> FALSE]
ReturnError == [exc |-> FALSE, val |-> PyNone, err |-> TRUE]
Raise == [exc |-> TRUE, val |-> PyNone, err |-> FALSE]

\* a login response that carries status 0 and a session token
GrantsLogin(resp) ==
    /\ resp.kind = "json" /\ ~resp.error
    /\ resp.len = 2 /\ resp.code = 0
    /\ resp.payload.t = "dict" /\ HasKey(resp.payload, "sid")

\* GramofonDevice._call: every exception is swallowed into None
DeviceCall(resp) ==
    IF resp.kind # "json" THEN Return(PyNone)
    ELSE IF resp.error THEN Return(PyNone)
    ELSE IF resp.len > 0 /\ resp.code = 0
         THEN Return(IF resp.len > 1 THEN resp.payload ELSE PyDict({}))
    ELSE Return(PyNone)

\* GramofonClient._call of gramofon_client.py: failures raise GramofonAPIError
ClientCall(resp) ==
    IF resp.kind = "neterr" THEN Raise
    ELSE IF ~resp.httpOk THEN Raise
    ELSE IF resp.kind = "nonjson" THEN Raise
    ELSE IF resp.error THEN Raise
    ELSE IF resp.len > 0
         THEN IF resp.code # 0 THEN Raise
              ELSE Return(IF resp.len > 1 THEN resp.payload ELSE PyNone)
    ELSE Return(PyNone)

\* GramofonClient._call of gramofon_config.py
ConfigCall(resp) ==
    IF resp.kind = "neterr" THEN Raise
    ELSE IF ~resp.httpOk THEN Raise
    ELSE IF resp.kind = "nonjson" THEN Raise
    ELSE IF resp.error THEN Raise
    ELSE IF resp.len > 0
         THEN IF resp.code # 0 THEN Raise
              ELSE Return(IF resp.len > 1 THEN resp.payload ELSE PyNone)
    ELSE Return(PyNone)

\* GramofonReset._call: `except Exception` prints and returns None
ResetCall(resp) ==
    IF resp.kind # "json" THEN Return(PyNone)
    ELSE IF resp.error THEN Return(PyNone)
    ELSE IF resp.len > 0 /\ resp.code = 0
         THEN Return(IF resp.len > 1 THEN resp.payload ELSE PyDict({}))
    ELSE Return(PyNone)

\* jsonrpc_call of gramofon_set_name.py: a pair (result, error)
SetNameCall(resp) ==
    IF resp.kind # "json" THEN ReturnError
    ELSE IF resp.error THEN ReturnError
    ELSE IF resp.len > 0 /\ resp.code = 0
         THEN Return(IF resp.len > 1 THEN resp.payload ELSE PyDict({}))
    ELSE ReturnError

(***************************************************************************)
(* GramofonDevice: login and the two calls of get_info.                    *)
(***************************************************************************)
\* login without the check for the token: `if result is not None`
LoginWithoutSidCheck(session_id, resp) ==
    LET result == DeviceCall(resp).val IN
    IF result.t = "none" THEN [exc |-> FALSE, ok |-> FALSE, session_id |-> session_id]
    ELSE IF result.t = "other" THEN [exc |-> TRUE, ok |-> FALSE, session_id |-> session_id]
    ELSE [exc |-> FALSE, ok |-> TRUE, session_id |-> DictGet(result, "sid", NoneStr)]

\* GramofonDevice.login: `if result and "sid" in result`
Login(session_id, resp) ==
    LET result == DeviceCall(resp).val IN
    IF ~Truthy(result) THEN [exc |-> FALSE, ok |-> FALSE, session_id |-> session_id]
    ELSE IF result.t = "other" THEN [exc |-> TRUE, ok |-> FALSE, session_id |-> session_id]
    ELSE IF HasKey(result, "sid")
         THEN [exc |-> FALSE, ok |-> TRUE, session_id |-> DictGet(result, "sid", NoneStr)]
    ELSE [exc |-> FALSE, ok |-> FALSE, session_id |-> session_id]

\* get_info, first call: `if result: self.name = result.get("spotifyname", "Unknown")`
GetName(name, resp) ==
    LET result == DeviceCall(resp).val IN
    IF ~Truthy(result) THEN [exc |-> FALSE, val |-> name]
    ELSE IF result.t = "other" THEN [exc |-> TRUE, val |-> name]
    ELSE [exc |-> FALSE, val |-> DictGet(result, "spotifyname", Unknown)]

\* get_info, second call: `if result: self.mac = result.get("fonmac", "Unknown")`
GetMac(mac, resp) ==
    LET result == DeviceCall(resp).val IN
    IF ~Truthy(result) THEN [exc |-> FALSE, val |-> mac]
    ELSE IF result.t = "other" THEN [exc |-> TRUE, val |-> mac]
    ELSE [exc |-> FALSE, val |-> DictGet(result, "fonmac", Unknown)]

\* a get_info that is satisfied once both calls were made
GetInfoReturnAlways(name) == TRUE

\* get_info: `return self.name is not None`
GetInfoReturn(name) == name # NoneStr

\* check_ip_is_gramofon: `if device.get_info(): return device`, else None
ProbeResult(infoOk) == IF infoOk THEN "Device" ELSE "None"

\* the probe without its try/except: the exception reaches the caller
ProbeExceptPropagates == "Raised"

\* check_ip_is_gramofon: the bare `except: pass` followed by `return None`
ProbeExcept == "None"

(***************************************************************************)
(* ipaddress.ip_network(network, strict=False) and net.hosts().            *)
(***************************************************************************)
Addrs == 0 .. (2 ^ AddrBits - 1)
InvalidNet == [valid |-> FALSE, addr |-> 0, prefixlen |-> 0]

\* strict=False: the host bits of the address are masked out
IpNetwork(network) ==
    IF ~network.valid \/ network.prefixlen > AddrBits THEN InvalidNet
    ELSE [valid |-> TRUE,
          addr |-> network.addr - (network.addr % (2 ^ (AddrBits - network.prefixlen))),
          prefixlen |-> network.prefixlen]

NumAddresses(net) == 2 ^ (AddrBits - net.prefixlen)
NetworkAddress(net) == net.addr
BroadcastAddress(net) == net.addr + NumAddresses(net) - 1

Range(lo, hi) == [i \in 1 .. (hi - lo + 1) |-> lo + i - 1]

\* iterating the network itself, `for ip in net`: every address of the range
HostsOfWholeRange(net) == Range(NetworkAddress(net), BroadcastAddress(net))

\* net.hosts(): network and broadcast address left out, except that a range
\* of two addresses yields both and a range of one address yields it
Hosts(net) ==
    IF net.prefixlen = AddrBits - 1
    THEN Range(NetworkAddress(net), BroadcastAddress(net))
    ELSE IF net.prefixlen = AddrBits THEN <<net.addr>>
    ELSE Range(NetworkAddress(net) + 1, BroadcastAddress(net) - 1)

\* the network strings handed to scan_network: a string that is no network,
\* a prefix length beyond the address width, and address/prefix pairs
NetworkInputs ==
    {InvalidNet}
    \cup {[valid |-> TRUE, addr |-> a, prefixlen |-> p] :
            a \in Addrs, p \in 0 .. (AddrBits + 1)}

ScanInputs ==
    {n \in NetworkInputs :
        IpNetwork(n).valid => Len(Hosts(IpNetwork(n))) <= MaxHosts}

SeqRange(s) == {s[i] : i \in 1 .. Len(s)}

(***************************************************************************)
(* The request of a call: the host it goes to, the session segment of its  *)
(* URL, the RPC method and the timeout handed to requests.post.            *)
(***************************************************************************)
\* `timeout: int = 5` of GramofonDevice._call
DefaultCallTimeout == 5
\* `timeout: int = 2` of check_ip_is_gramofon, and the default of --timeout
DefaultProbeTimeout == 2
\* the values of --timeout tried
Timeouts == {1, DefaultProbeTimeout, DefaultCallTimeout}

NoReq == [to |-> -1, sid |-> "", method |-> "none", timeout |-> 0]

\* a URL that always carries the anonymous session
UrlSidAlwaysZero(session_id) == ZeroSid

\* `sid = self.session_id or "00000000000000000000000000000000"`
UrlSid(session_id) == IF session_id = NoneStr THEN ZeroSid ELSE session_id

(***************************************************************************)
(* State.                                                                  *)
(*   stage     where main / scan_network stands                            *)
(*   net       the parsed network of the scan                              *)
(*   todo      hosts of net.hosts() not yet submitted to the executor      *)
(*   queue     work queue of the ThreadPoolExecutor                        *)
(*   submitted the addresses of future_to_ip, in submission order          *)
(*   probe     per address: the future of its probe and the fields of the  *)
(*             GramofonDevice the probe works on                           *)
(*   devices   the `devices` list (device objects, named by address)       *)
(*   ret       what scan_network returned                                  *)
(*   exitCode  what main returned; -1 while it runs                        *)
(*   hist      the responses one probe has received, oldest first          *)
(*   rpc       the last call made through one of the _call implementations:*)
(*             which one, the response it got and what it gave its caller  *)
(*   run       one run of a command line tool or of a workflow: where it  *)
(*             stands, what the user typed, the RPC calls it has sent and  *)
(*             what it returned; for the setup workflows `outs` tells of   *)
(*             each call whether the operation returned without raising,   *)
(*             `steps` and `success` are results['steps_completed'] and    *)
(*             results['success'] of configure_device                      *)
(*   client    one client object, its fields and the last operation called *)
(*             on it: the session segment of its URL, the response, what   *)
(*             the operation gave its caller; `granted` is the token of    *)
(*             the latest login the device granted, `before` its value     *)
(*             when the last operation began                               *)
(***************************************************************************)
VARIABLES stage, net, todo, queue, submitted, probe, devices, ret, exitCode,
          hist, rpc, client, run

vars == <<stage, net, todo, queue, submitted, probe, devices, ret, exitCode,
          hist, rpc, client, run>>
scanVars == <<net, todo, queue, submitted, ret>>

\* GramofonDevice.__init__ and a future that does not exist yet
NoProbe ==
    [pc |-> "none", session_id |-> NoneStr, name |-> NoneStr, mac |-> NoneStr,
     result |-> "pending", timeout |-> DefaultProbeTimeout, req |-> NoReq]

\* no tool started yet
NoRun ==
    [tool |-> "none", pc |-> "none", yes |-> FALSE, arg |-> "none",
     session_id |-> NoneStr,
     name |-> NoneStr, mac |-> NoneStr, typed |-> <<>>, calls |-> <<>>,
     outs |-> <<>>, steps |-> <<>>, success |-> FALSE,
     exit |-> -1]

\* no client object yet
NoClient ==
    [cls |-> "none", session_id |-> NoneStr, name |-> NoneStr, mac |-> NoneStr,
     op |-> "none", url |-> "", resp |-> NetErr, out |-> Return(PyNone),
     before |-> NoneStr, granted |-> NoneStr]

NoRpc == [impl |-> "none", resp |-> NetErr, out |-> Return(PyNone)]

InitCommon ==
    /\ net = InvalidNet
    /\ todo = <<>>
    /\ queue = <<>>
    /\ submitted = <<>>
    /\ probe = [ip \in Addrs |-> NoProbe]
    /\ devices = <<>>
    /\ ret = <<>>
    /\ exitCode = -1
    /\ hist = <<>>
    /\ rpc = NoRpc
    /\ client = NoClient
    /\ run = NoRun

\* the network under scan: the hosts that are Gramofon devices and grant a
\* login (every third address); such a host may still fail any call
IsDevice(ip) == ip % 3 = 2

Running == {ip \in Addrs : probe[ip].pc \in {"login", "name", "mac"}}

\* a session kept in one place for all device objects: the URL carries the
\* token of whichever probe logged in
DeviceRequestSharedSession(ip, session_id, method) ==
    LET logged == {a \in DOMAIN probe : probe[a].session_id # NoneStr} IN
    [to |-> ip,
     sid |-> IF logged = {} THEN UrlSid(session_id)
             ELSE probe[CHOOSE a \in logged : TRUE].session_id,
     method |-> method,
     timeout |-> DefaultCallTimeout]

\* GramofonDevice._call as login and get_info use it: the URL is built from
\* self.ip and self.session_id, the timeout is the default of _call
DeviceRequest(ip, session_id, method) ==
    [to |-> ip, sid |-> UrlSid(session_id), method |-> method,
     timeout |-> DefaultCallTimeout]

(***************************************************************************)
(* The probe, check_ip_is_gramofon(ip): one step per network call.         *)
(***************************************************************************)
\* a probe that returned or raised: its future is finished
Finish(ip, p, result) ==
    probe' = [probe EXCEPT ![ip] = [p EXCEPT !.pc = "finished", !.result = result]]

\* check_ip_is_gramofon(ip, timeout): `device = GramofonDevice(ip)` and the
\* request of device.login() goes out
ProbeBegin(ip, timeout) ==
    probe' = [probe EXCEPT ![ip] =
                [NoProbe EXCEPT !.pc = "login", !.timeout = timeout,
                                !.req = DeviceRequest(ip, NoProbe.session_id, "login")]]

\* a probe that goes on to get_info whatever device.login() returned
ProbeLoginUnchecked(ip, resp) ==
    /\ probe[ip].pc = "login"
    /\ LET r == Login(probe[ip].session_id, resp)
           p == [probe[ip] EXCEPT !.session_id = r.session_id]
       IN /\ GrantsLogin(resp) =>
                IsDevice(ip) /\ DictGet(resp.payload, "sid", NoneStr) = SidOf(ip)
          /\ IF r.exc THEN Finish(ip, p, ProbeExcept)
             ELSE probe' = [probe EXCEPT ![ip] =
                    [p EXCEPT !.pc = "name",
                              !.req = DeviceRequest(ip, p.session_id, "get_gramofonname")]]

\* device.login(): on an exception or a failed login the probe ends
ProbeLogin(ip, resp) ==
    /\ probe[ip].pc = "login"
    /\ LET r == Login(probe[ip].session_id, resp)
           p == [probe[ip] EXCEPT !.session_id = r.session_id]
       IN /\ GrantsLogin(resp) =>
                IsDevice(ip) /\ DictGet(resp.payload, "sid", NoneStr) = SidOf(ip)
          /\ IF r.exc THEN Finish(ip, p, ProbeExcept)
             ELSE IF r.ok
             THEN probe' = [probe EXCEPT ![ip] =
                    [p EXCEPT !.pc = "name",
                              !.req = DeviceRequest(ip, p.session_id, "get_gramofonname")]]
             ELSE Finish(ip, p, "None")

\* device.get_info(), the get_gramofonname call
ProbeName(ip, resp) ==
    /\ probe[ip].pc = "name"
    /\ LET r == GetName(probe[ip].name, resp)
           p == [probe[ip] EXCEPT !.name = r.val]
       IN IF r.exc THEN Finish(ip, p, ProbeExcept)
          ELSE probe' = [probe EXCEPT ![ip] =
                 [p EXCEPT !.pc = "mac",
                           !.req = DeviceRequest(ip, p.session_id, "get_fonmac")]]

\* device.get_info(), the get_fonmac call, and the return of the probe
ProbeMac(ip, resp) ==
    /\ probe[ip].pc = "mac"
    /\ LET r == GetMac(probe[ip].mac, resp)
           p == [probe[ip] EXCEPT !.mac = r.val]
       IN IF r.exc THEN Finish(ip, p, ProbeExcept)
          ELSE Finish(ip, p, ProbeResult(GetInfoReturn(p.name)))

\* what the host may answer to the call the probe is waiting on
ResponsesAt(ip, pc) ==
    CASE pc = "login" -> LoginResponses(ip)
      [] pc = "name" -> NameResponses
      [] pc = "mac" -> MacResponses
      [] OTHER -> {}

\* one network call of the probe of ip returns
ProbeStep(ip, resp) ==
    \/ ProbeLogin(ip, resp)
    \/ ProbeName(ip, resp)
    \/ ProbeMac(ip, resp)

(***************************************************************************)
(* scan_network(network, max_workers).                                     *)
(***************************************************************************)
\* ip_network(network, strict=False); an invalid network prints and returns []
ScanNetwork(network) ==
    /\ stage = "scan"
    /\ LET n == IpNetwork(network) IN
       IF ~n.valid
       THEN /\ stage' = "returned"
            /\ ret' = <<>>
            /\ UNCHANGED <<net, todo>>
       ELSE /\ stage' = "submit"
            /\ net' = n
            /\ todo' = Hosts(n)
            /\ ret' = ret
    /\ UNCHANGED <<queue, submitted, probe, devices, exitCode, hist, rpc, client, run>>

\* executor.submit(check_ip_is_gramofon, str(ip)) for the next host; after the
\* last one the loop over as_completed begins
Submit ==
    /\ stage = "submit"
    /\ todo # <<>>
    /\ LET ip == Head(todo) IN
       /\ queue' = Append(queue, ip)
       /\ submitted' = Append(submitted, ip)
       /\ probe' = [probe EXCEPT ![ip] = [NoProbe EXCEPT !.pc = "queued"]]
    /\ todo' = Tail(todo)
    /\ stage' = IF Tail(todo) = <<>> THEN "collect" ELSE "submit"
    /\ UNCHANGED <<net, devices, ret, exitCode, hist, rpc, client, run>>

\* an executor that starts a thread for every task
WorkerAlwaysAvailable == TRUE

\* a pool whose threads end with their first task
WorkerNeverFreed ==
    Cardinality({ip \in Addrs : probe[ip].pc \notin {"none", "queued"}}) < MaxWorkers

\* ThreadPoolExecutor(max_workers=max_workers): a thread is free for a task
WorkerAvailable == Cardinality(Running) < MaxWorkers

\* a worker thread takes the oldest queued probe and begins it
WorkerStart ==
    /\ queue # <<>>
    /\ WorkerAvailable
    /\ ProbeBegin(Head(queue), DefaultProbeTimeout)
    /\ queue' = Tail(queue)
    /\ UNCHANGED <<stage, net, todo, submitted, devices, ret, exitCode, hist, rpc, client, run>>

\* a probe that appends the device it found to the list itself
WorkerStepAppends ==
    /\ stage \in {"submit", "collect"}
    /\ \E ip \in Running : \E resp \in ResponsesAt(ip, probe[ip].pc) :
        /\ ProbeStep(ip, resp)
        /\ devices' = IF probe'[ip].result = "Device" THEN Append(devices, ip)
                      ELSE devices
    /\ UNCHANGED <<stage, scanVars, exitCode, hist, rpc, client, run>>

\* a network call of a running probe returns
WorkerStep ==
    /\ stage \in {"submit", "collect"}
    /\ \E ip \in Running : \E resp \in ResponsesAt(ip, probe[ip].pc) : ProbeStep(ip, resp)
    /\ UNCHANGED <<stage, scanVars, devices, exitCode, hist, rpc, client, run>>

\* the append without its `if device:`
CollectAppendAlways(devs, ip, result) == Append(devs, ip)

\* a list kept in address order
CollectAppendSorted(devs, ip, result) ==
    IF result = "Device"
    THEN SelectSeq(devs, LAMBDA a : a < ip) \o <<ip>> \o SelectSeq(devs, LAMBDA a : a > ip)
    ELSE devs

\* `if device: devices.append(device)`
CollectAppend(devs, ip, result) ==
    IF result = "Device" THEN Append(devs, ip) ELSE devs

\* one iteration of `for future in as_completed(future_to_ip)`;
\* future.result() raises what the probe raised
Collect ==
    /\ stage = "collect"
    /\ \E ip \in SeqRange(submitted) :
        /\ probe[ip].pc = "finished"
        /\ probe' = [probe EXCEPT ![ip].pc = "consumed"]
        /\ IF probe[ip].result = "Raised"
           THEN stage' = "aborted" /\ devices' = devices
           ELSE /\ stage' = stage
                /\ devices' = CollectAppend(devices, ip, probe[ip].result)
    /\ UNCHANGED <<scanVars, exitCode, hist, rpc, client, run>>

\* a scan that leaves at the first device, without waiting for the executor
ScanMayReturnEarly ==
    \/ devices # <<>>
    \/ /\ \A ip \in SeqRange(submitted) : probe[ip].pc = "consumed"
       /\ queue = <<>>

\* as_completed is exhausted and the `with` block has shut the executor down
ScanMayReturn ==
    /\ \A ip \in SeqRange(submitted) : probe[ip].pc = "consumed"
    /\ queue = <<>>
    /\ Running = {}

\* `return devices`
ScanReturn ==
    /\ stage = "collect"
    /\ ScanMayReturn
    /\ stage' = "returned"
    /\ ret' = devices
    /\ UNCHANGED <<net, todo, queue, submitted, probe, devices, exitCode, hist, rpc, client, run>>

Init == InitCommon /\ stage = "scan"

Next ==
    \/ \E network \in ScanInputs : ScanNetwork(network)
    \/ Submit
    \/ WorkerStart
    \/ WorkerStep
    \/ Collect
    \/ ScanReturn

Spec == Init /\ [][Next]_vars

\* the ways a call ends when every call returns or times out: the timeout
\* of requests.post, or status 0 with a dict for payload
Outcomes(ip, pc) ==
    {resp \in ResponsesAt(ip, pc) :
        \/ resp = NetErr
        \/ /\ resp.kind = "json" /\ ~resp.error /\ resp.len = 2 /\ resp.code = 0
           /\ resp.payload.t = "dict" /\ resp.payload.d # {}}

\* a network call of a running probe returns or times out
WorkerReturn ==
    /\ stage \in {"submit", "collect"}
    /\ \E ip \in Running : \E resp \in Outcomes(ip, probe[ip].pc) : ProbeStep(ip, resp)
    /\ UNCHANGED <<stage, scanVars, devices, exitCode, hist, rpc, client, run>>

NextFair ==
    \/ \E network \in ScanInputs : ScanNetwork(network)
    \/ Submit
    \/ WorkerStart
    \/ WorkerReturn
    \/ Collect
    \/ ScanReturn

\* fair scheduling: while the main thread or a worker thread can take a
\* step, or a network call is pending, one of them happens
Fairness == WF_vars(NextFair)

SpecFair == Init /\ [][NextFair]_vars /\ Fairness

(***************************************************************************)
(* main, specific IP mode: `device = check_ip_is_gramofon(args.ip, ...)`.  *)
(***************************************************************************)
\* the probe runs in the main thread
MainIp(ip, timeout) ==
    /\ stage = "ip"
    /\ stage' = "probing"
    /\ ProbeBegin(ip, timeout)
    /\ UNCHANGED <<scanVars, devices, exitCode, hist, rpc, client, run>>

\* a network call of the probe returns
MainIpStep ==
    /\ stage = "probing"
    /\ \E ip \in Running : \E resp \in ResponsesAt(ip, probe[ip].pc) :
        /\ ProbeStep(ip, resp)
        /\ hist' = Append(hist, resp)
    /\ UNCHANGED <<stage, scanVars, devices, exitCode, rpc, client, run>>

\* `if device: devices.append(device)`, `else: return 1`
MainIpResult ==
    /\ stage = "probing"
    /\ \E ip \in Addrs :
        /\ probe[ip].pc = "finished"
        /\ probe' = [probe EXCEPT ![ip].pc = "consumed"]
        /\ IF probe[ip].result = "Raised"
           THEN stage' = "aborted" /\ UNCHANGED <<devices, exitCode>>
           ELSE IF probe[ip].result = "Device"
           THEN stage' = "found" /\ devices' = Append(devices, ip) /\ UNCHANGED exitCode
           ELSE stage' = "exit" /\ exitCode' = 1 /\ UNCHANGED devices
    /\ UNCHANGED <<scanVars, hist, rpc, client, run>>

InitProbe == InitCommon /\ stage = "ip"

NextProbe ==
    \/ \E ip \in Addrs : \E timeout \in Timeouts : MainIp(ip, timeout)
    \/ MainIpStep
    \/ MainIpResult

SpecProbe == InitProbe /\ [][NextProbe]_vars

\* the probe of the specific IP mode, once it has ended
Probed == {ip \in Addrs : probe[ip].pc \in {"finished", "consumed"}}

\* the kinds of login failure: no response, a body that is not JSON, an error
\* field, a status code other than 0, no status code, status 0 without a token
LoginFails(resp) == ~GrantsLogin(resp)

(***************************************************************************)
(* C1: once the login call of a probe has succeeded (status 0 with a       *)
(* session token) the probe yields Found, whatever the name and MAC calls  *)
(* answer, and a name or MAC that was not obtained reads "Unknown".        *)
(***************************************************************************)
C1_LoginSuccessIsFound ==
    \A ip \in Probed :
        (Len(hist) >= 1 /\ GrantsLogin(hist[1])) =>
            /\ probe[ip].result = "Device"
            /\ probe[ip].name # NoneStr
            /\ probe[ip].mac # NoneStr

(***************************************************************************)
(* C2: a probe whose login fails yields NotFound, for every kind of login  *)
(* failure alike: no further call is made and no token is stored.          *)
(***************************************************************************)
C2_LoginFailureIsNotFound ==
    \A ip \in Probed :
        (Len(hist) >= 1 /\ LoginFails(hist[1])) =>
            /\ probe[ip].result = "None"
            /\ probe[ip].session_id = NoneStr
            /\ Len(hist) = 1

\* a probe ended on a login response of status 0 that carries no token
C2_Witness ==
    \E ip \in Probed :
        /\ Len(hist) = 1
        /\ hist[1].kind = "json" /\ ~hist[1].error
        /\ hist[1].len = 2 /\ hist[1].code = 0
        /\ hist[1].payload = PyDict({<<"other", "x">>})
        /\ probe[ip].result = "None"
        /\ stage = "exit"

(***************************************************************************)
(* C3: whatever the login, name and MAC calls answer, the probe returns a  *)
(* device or None and raises nothing to its caller.                        *)
(***************************************************************************)
C3_ProbeNeverRaises ==
    /\ stage # "aborted"
    /\ \A ip \in Probed : probe[ip].result \in {"Device", "None"}

\* a probe that ended in None because the name call's payload made get_info raise
C3_Witness ==
    \E ip \in Probed :
        /\ Len(hist) = 2
        /\ GrantsLogin(hist[1])
        /\ hist[2].payload = PyOther /\ hist[2].len = 2 /\ hist[2].code = 0
        /\ probe[ip].result = "None"
        /\ stage = "exit"

(***************************************************************************)
(* Properties of scan_network.                                             *)
(***************************************************************************)
\* the addresses of the range other than its network and broadcast address
InnerAddresses(n) ==
    {a \in Addrs : NetworkAddress(n) < a /\ a < BroadcastAddress(n)}
AllAddresses(n) ==
    {a \in Addrs : NetworkAddress(n) <= a /\ a <= BroadcastAddress(n)}

\* addresses for which a probe was dispatched, running or not
Dispatched == {ip \in Addrs : probe[ip].pc # "none"}
Completed == {ip \in Addrs : probe[ip].pc \in {"finished", "consumed"}}
SubmitOver == stage \in {"collect", "returned"} /\ net.valid

(***************************************************************************)
(* C4 as stated: for every valid range, the probes dispatched are exactly  *)
(* one per address other than the network and the broadcast address.       *)
(***************************************************************************)
C4_ProbesAreInnerAddresses ==
    /\ Dispatched = SeqRange(submitted)
    /\ SubmitOver =>
        /\ SeqRange(submitted) = InnerAddresses(net)
        /\ Len(submitted) = Cardinality(InnerAddresses(net))

(***************************************************************************)
(* C4 amended: for every valid range of four addresses or more, the probes *)
(* dispatched are exactly one per address other than the network and the   *)
(* broadcast address; for a range of two addresses or of one address they  *)
(* are exactly one per address of the range.  No other address is probed   *)
(* and none twice.                                                         *)
(***************************************************************************)
C4_ProbesAreHosts ==
    LET expected == IF NumAddresses(net) >= 4 THEN InnerAddresses(net)
                    ELSE AllAddresses(net)
    IN /\ Dispatched = SeqRange(submitted)
       /\ net.valid => SeqRange(submitted) \subseteq expected
       /\ Len(submitted) = Cardinality(SeqRange(submitted))
       /\ SubmitOver =>
            /\ SeqRange(submitted) = expected
            /\ Len(submitted) = Cardinality(expected)

\* every host of a range of eight addresses was submitted: six probes
C4_Witness ==
    /\ SubmitOver
    /\ NumAddresses(net) >= 8
    /\ Len(submitted) = NumAddresses(net) - 2
    /\ NetworkAddress(net) \notin Dispatched
    /\ BroadcastAddress(net) \notin Dispatched

(***************************************************************************)
(* C5: at no time are more than max_workers probes started and not yet     *)
(* completed.                                                              *)
(***************************************************************************)
C5_BoundedConcurrency == Cardinality(Running) <= MaxWorkers

\* every worker is busy while more probes wait in the queue
C5_Witness == Cardinality(Running) = MaxWorkers /\ queue # <<>>

(***************************************************************************)
(* C6: scan_network returns only when every host was submitted and every   *)
(* dispatched probe has completed, also after a device was found.          *)
(***************************************************************************)
C6_ReturnAfterAllProbes ==
    (stage = "returned" /\ net.valid) =>
        /\ todo = <<>>
        /\ SeqRange(submitted) \subseteq Completed
        /\ Running = {} /\ queue = <<>>

\* a scan returned a device from a range in which other probes found nothing
C6_Witness ==
    /\ stage = "returned"
    /\ ret # <<>>
    /\ Len(submitted) > Len(ret) + 2

(***************************************************************************)
(* C7: the sequence scan_network returns has exactly one entry for each    *)
(* address whose probe returned a device and none for any other address.   *)
(***************************************************************************)
C7_ResultIsTheFoundSet ==
    (stage = "returned" /\ net.valid) =>
        /\ SeqRange(ret) = {ip \in SeqRange(submitted) : probe[ip].result = "Device"}
        /\ Len(ret) = Cardinality(SeqRange(ret))

\* two devices returned in the reverse of address order
C7_Witness ==
    /\ stage = "returned"
    /\ Len(ret) = 2
    /\ ret[1] > ret[2]
    /\ \E ip \in SeqRange(submitted) : probe[ip].result = "None"

(***************************************************************************)
(* C8: for a network string that is no network, scan_network dispatches no *)
(* probe and what it returns differs from what a completed scan that found *)
(* no device returns (the empty list).                                     *)
(***************************************************************************)
C8_InvalidNetworkIsDistinct ==
    (stage = "returned" /\ ~net.valid) =>
        /\ Dispatched = {}
        /\ ret # <<>>

(***************************************************************************)
(* C9: no failing probe aborts the scan or removes a device from the       *)
(* result: the scan never ends in an exception, the devices list only      *)
(* grows, and a scan that returned consumed every probe and returned       *)
(* every device its probes found.                                          *)
(***************************************************************************)
C9_FailuresNeverAbort ==
    /\ [](stage # "aborted")
    /\ [][\A i \in 1 .. Len(devices) :
            Len(devices') >= i /\ devices'[i] = devices[i]]_vars
    /\ []((stage = "returned" /\ net.valid) =>
            /\ \A ip \in SeqRange(submitted) : probe[ip].pc = "consumed"
            /\ \A ip \in SeqRange(submitted) :
                 probe[ip].result = "Device" => ip \in SeqRange(ret))

\* a scan in which every probe failed returned normally
C9_Witness ==
    /\ stage = "returned"
    /\ net.valid
    /\ Len(submitted) = NumAddresses(net) - 2
    /\ Len(submitted) > 2
    /\ \A ip \in SeqRange(submitted) : probe[ip].result = "None"
    /\ \E ip \in SeqRange(submitted) : probe[ip].session_id # NoneStr
    /\ ret = <<>>

(***************************************************************************)
(* The RPC layer on its own: a call through each implementation of _call.  *)
(***************************************************************************)
\* responses with either kind of HTTP status line
RpcResponses ==
    LET base == Responses(Payloads("sid", {"sid1"})) IN
    base \cup {[r EXCEPT !.httpOk = FALSE] : r \in {b \in base : b.kind # "neterr"}}

RpcDone(impl, resp, out) ==
    /\ stage = "rpc"
    /\ rpc' = [impl |-> impl, resp |-> resp, out |-> out]
    /\ UNCHANGED <<stage, scanVars, probe, devices, exitCode, hist, client, run>>

DeviceRpc(resp) == RpcDone("GramofonDevice", resp, DeviceCall(resp))
ClientRpc(resp) == RpcDone("GramofonClient", resp, ClientCall(resp))
ConfigRpc(resp) == RpcDone("ConfigClient", resp, ConfigCall(resp))
ResetRpc(resp) == RpcDone("GramofonReset", resp, ResetCall(resp))
SetNameRpc(resp) == RpcDone("set_name", resp, SetNameCall(resp))

InitRpc == InitCommon /\ stage = "rpc"

NextRpc ==
    \/ \E resp \in RpcResponses : DeviceRpc(resp)
    \/ \E resp \in RpcResponses : ClientRpc(resp)
    \/ \E resp \in RpcResponses : ConfigRpc(resp)
    \/ \E resp \in RpcResponses : ResetRpc(resp)
    \/ \E resp \in RpcResponses : SetNameRpc(resp)

SpecRpc == InitRpc /\ [][NextRpc]_vars

\* the response has no error field and its result array starts with 0
EnvelopeOk(resp) ==
    resp.kind = "json" /\ ~resp.error /\ resp.len >= 1 /\ resp.code = 0

\* how each implementation tells its caller that the call succeeded: the
\* clients by not raising, the others by a result that is not None
ReportsSuccess(r) ==
    IF r.impl \in {"GramofonClient", "ConfigClient"} THEN ~r.out.exc
    ELSE r.out.val # PyNone

(***************************************************************************)
(* C10: in every implementation a call is reported as successful only if   *)
(* the response has no error field and its result array starts with status *)
(* code 0; every other response is a failure and yields no payload.        *)
(***************************************************************************)
C10_SuccessOnlyOnStatusZero ==
    rpc.impl # "none" =>
        /\ ReportsSuccess(rpc) => EnvelopeOk(rpc.resp)
        /\ ~EnvelopeOk(rpc.resp) => (rpc.out.val = PyNone /\ ~ReportsSuccess(rpc))

(***************************************************************************)
(* One client object and the operations called on it, in any order.        *)
(* The classes: GramofonDevice (gramofon_discovery.py), GramofonReset      *)
(* (gramofon_factory_reset.py), GramofonClient (gramofon_client.py),       *)
(* ConfigClient (the GramofonClient of gramofon_config.py) and set_name    *)
(* (the functions of gramofon_set_name.py, whose session is the local      *)
(* `sid` of main).                                                         *)
(***************************************************************************)
PyBool(b) == [t |-> IF b THEN "true" ELSE "false", d |-> {}]
PyStr(str) == [t |-> "str", d |-> {<<"str", str>>}]

Classes ==
    {"GramofonDevice", "GramofonReset", "GramofonClient", "ConfigClient", "set_name"}

\* classes whose _call raises GramofonAPIError
Raising == {"GramofonClient", "ConfigClient"}

\* the tokens the device under the client object hands out, login after login
ClientSids == {SidOf(1), SidOf(2)}

\* GramofonClient._get_url of gramofon_client.py
ClientUrlSid(session_id) == IF session_id = NoneStr THEN ZeroSid ELSE session_id

\* GramofonClient._get_url of gramofon_config.py
ConfigUrlSid(session_id) == IF session_id = NoneStr THEN ZeroSid ELSE session_id

\* GramofonReset._call: `sid = self.session_id or "000..."`
ResetUrlSid(session_id) == IF session_id = NoneStr THEN ZeroSid ELSE session_id

\* gramofon_set_name.py: login passes the anonymous session, get_name and
\* set_name the sid main got from login
SetNameUrlSid(op, sid) == IF op = "login" THEN ZeroSid ELSE sid

\* a login that forgets the session when it fails
ResetLoginClearsOnFailure(session_id, resp) ==
    LET result == ResetCall(resp).val IN
    IF Truthy(result) /\ result.t = "dict" /\ HasKey(result, "sid")
    THEN [exc |-> FALSE, ok |-> TRUE, session_id |-> DictGet(result, "sid", NoneStr)]
    ELSE [exc |-> FALSE, ok |-> FALSE, session_id |-> NoneStr]

\* GramofonReset.login
ResetLogin(session_id, resp) ==
    LET result == ResetCall(resp).val IN
    IF ~Truthy(result) THEN [exc |-> FALSE, ok |-> FALSE, session_id |-> session_id]
    ELSE IF result.t = "other" THEN [exc |-> TRUE, ok |-> FALSE, session_id |-> session_id]
    ELSE IF HasKey(result, "sid")
         THEN [exc |-> FALSE, ok |-> TRUE, session_id |-> DictGet(result, "sid", NoneStr)]
    ELSE [exc |-> FALSE, ok |-> FALSE, session_id |-> session_id]

\* a login that stores whatever the call returned and never raises
ClientLoginNoRaise(session_id, resp) ==
    LET r == ClientCall(resp) IN
    IF r.exc THEN [exc |-> TRUE, ok |-> FALSE, session_id |-> session_id]
    ELSE [exc |-> FALSE, ok |-> TRUE, session_id |-> DictGet(r.val, "sid", NoneStr)]

\* GramofonClient.login of gramofon_client.py: the token or GramofonAPIError
ClientLogin(session_id, resp) ==
    LET r == ClientCall(resp) IN
    IF r.exc THEN [exc |-> TRUE, ok |-> FALSE, session_id |-> session_id]
    ELSE IF ~Truthy(r.val) THEN [exc |-> TRUE, ok |-> FALSE, session_id |-> session_id]
    ELSE IF r.val.t = "other" THEN [exc |-> TRUE, ok |-> FALSE, session_id |-> session_id]
    ELSE IF HasKey(r.val, "sid")
         THEN [exc |-> FALSE, ok |-> TRUE, session_id |-> DictGet(r.val, "sid", NoneStr)]
    ELSE [exc |-> TRUE, ok |-> FALSE, session_id |-> session_id]

\* GramofonClient.login of gramofon_config.py
ConfigLogin(session_id, resp) ==
    LET r == ConfigCall(resp) IN
    IF r.exc THEN [exc |-> TRUE, ok |-> FALSE, session_id |-> session_id]
    ELSE IF ~Truthy(r.val) THEN [exc |-> TRUE, ok |-> FALSE, session_id |-> session_id]
    ELSE IF r.val.t = "other" THEN [exc |-> TRUE, ok |-> FALSE, session_id |-> session_id]
    ELSE IF HasKey(r.val, "sid")
         THEN [exc |-> FALSE, ok |-> TRUE, session_id |-> DictGet(r.val, "sid", NoneStr)]
    ELSE [exc |-> TRUE, ok |-> FALSE, session_id |-> session_id]

\* login of gramofon_set_name.py: the sid or None
SetNameLogin(sid, resp) ==
    LET result == SetNameCall(resp).val IN
    IF ~Truthy(result) THEN [exc |-> FALSE, ok |-> FALSE, session_id |-> NoneStr]
    ELSE IF result.t = "other" THEN [exc |-> TRUE, ok |-> FALSE, session_id |-> sid]
    ELSE IF HasKey(result, "sid")
         THEN [exc |-> FALSE, ok |-> TRUE, session_id |-> DictGet(result, "sid", NoneStr)]
    ELSE [exc |-> FALSE, ok |-> FALSE, session_id |-> NoneStr]

\* what a login hands its caller: True/False for GramofonDevice and
\* GramofonReset, the token for the two GramofonClient and for set_name
LoginOut(cls, r) ==
    IF r.exc THEN Raise
    ELSE IF cls \in {"GramofonDevice", "GramofonReset"} THEN Return(PyBool(r.ok))
    ELSE IF r.ok THEN Return(PyStr(r.session_id))
    ELSE Return(PyNone)

\* GramofonDevice: login, the two calls of get_info, get_led_status,
\* get_status, set_led and reboot
DeviceOp(c, op, resp) ==
    CASE op = "login" ->
           LET r == Login(c.session_id, resp) IN
           [c EXCEPT !.session_id = r.session_id, !.out = LoginOut(c.cls, r)]
      [] op = "get_gramofonname" ->
           LET r == GetName(c.name, resp) IN
           [c EXCEPT !.name = r.val, !.out = IF r.exc THEN Raise ELSE Return(PyNone)]
      [] op = "get_fonmac" ->
           LET r == GetMac(c.mac, resp) IN
           [c EXCEPT !.mac = r.val,
                     !.out = IF r.exc THEN Raise
                             ELSE Return(PyBool(GetInfoReturn(c.name)))]
      [] op \in {"get_led_status", "get_status"} ->
           [c EXCEPT !.out = DeviceCall(resp)]
      [] op \in {"set_led", "reboot"} ->
           [c EXCEPT !.out = Return(PyBool(DeviceCall(resp).val # PyNone))]

\* GramofonReset: login and factory_reset
ResetOp(c, op, resp) ==
    CASE op = "login" ->
           LET r == ResetLogin(c.session_id, resp) IN
           [c EXCEPT !.session_id = r.session_id, !.out = LoginOut(c.cls, r)]
      [] op = "factory_reset" ->
           [c EXCEPT !.out = Return(PyBool(ResetCall(resp).val # PyNone))]

\* get_device_name and get_mac_address of both GramofonClient classes:
\* `return result.get(key, "") if result else ""`
GetField(r, key) ==
    IF r.exc THEN Raise
    ELSE IF ~Truthy(r.val) THEN Return(PyStr(""))
    ELSE IF r.val.t = "other" THEN Raise
    ELSE Return(PyStr(DictGet(r.val, key, "")))

\* GramofonClient of gramofon_client.py
ClientOp(c, op, resp) ==
    CASE op = "login" ->
           LET r == ClientLogin(c.session_id, resp) IN
           [c EXCEPT !.session_id = r.session_id, !.out = LoginOut(c.cls, r)]
      [] op \in {"get_status", "get_led_status", "set_led", "set_device_name",
                 "configure_wifi"} ->
           [c EXCEPT !.out = ClientCall(resp)]
      [] op = "get_device_name" ->
           [c EXCEPT !.out = GetField(ClientCall(resp), "spotifyname")]
      [] op = "get_mac_address" ->
           [c EXCEPT !.out = GetField(ClientCall(resp), "fonmac")]
      [] op \in {"reboot", "reset_to_defaults", "reload_wifi"} ->
           [c EXCEPT !.out = Return(PyBool(~ClientCall(resp).exc))]

\* GramofonClient of gramofon_config.py
ConfigOp(c, op, resp) ==
    CASE op = "login" ->
           LET r == ConfigLogin(c.session_id, resp) IN
           [c EXCEPT !.session_id = r.session_id, !.out = LoginOut(c.cls, r)]
      [] op \in {"get_status", "get_led_status", "set_device_name", "configure_wifi"} ->
           [c EXCEPT !.out = ConfigCall(resp)]
      [] op = "get_device_name" ->
           [c EXCEPT !.out = GetField(ConfigCall(resp), "spotifyname")]
      [] op = "get_mac_address" ->
           [c EXCEPT !.out = GetField(ConfigCall(resp), "fonmac")]
      [] op \in {"set_led", "reboot", "reset_to_defaults", "reload_wifi"} ->
           [c EXCEPT !.out = Return(PyBool(~ConfigCall(resp).exc))]

\* gramofon_set_name.py: login, get_name and set_name
SetNameOp(c, op, resp) ==
    CASE op = "login" ->
           LET r == SetNameLogin(c.session_id, resp) IN
           [c EXCEPT !.session_id = r.session_id, !.out = LoginOut(c.cls, r)]
      [] op = "get_name" ->
           LET result == SetNameCall(resp).val IN
           [c EXCEPT !.out = IF ~Truthy(result) THEN Return(PyNone)
                             ELSE IF result.t = "other" THEN Raise
                             ELSE Return(PyStr(DictGet(result, "spotifyname", Unknown)))]
      [] op = "set_name" ->
           [c EXCEPT !.out = Return(PyBool(SetNameCall(resp).val # PyNone))]

Ops(cls) ==
    CASE cls = "GramofonDevice" ->
           {"login", "get_gramofonname", "get_fonmac", "get_led_status",
            "get_status", "set_led", "reboot"}
      [] cls = "GramofonReset" -> {"login", "factory_reset"}
      [] cls = "GramofonClient" ->
           {"login", "get_status", "get_device_name", "get_mac_address",
            "get_led_status", "set_led", "set_device_name", "configure_wifi",
            "reboot", "reset_to_defaults", "reload_wifi"}
      [] cls = "ConfigClient" ->
           {"login", "get_status", "get_device_name", "get_mac_address",
            "get_led_status", "set_led", "set_device_name", "configure_wifi",
            "reboot", "reset_to_defaults", "reload_wifi"}
      [] cls = "set_name" -> {"login", "get_name", "set_name"}
      [] OTHER -> {}

\* the order the code calls in: get_info makes its two calls back to back,
\* and main of gramofon_set_name.py logs in once and stops when that fails
MayCall(c, op) ==
    /\ op \in Ops(c.cls)
    /\ (c.op = "get_gramofonname" /\ ~c.out.exc) <=> op = "get_fonmac"
    /\ c.cls = "set_name" =>
         IF op = "login" THEN c.op = "none"
         ELSE c.session_id # NoneStr /\ ~c.out.exc

\* responses with either kind of HTTP status line
WithHttp(base) ==
    base \cup {[r EXCEPT !.httpOk = FALSE] : r \in {b \in base : b.kind # "neterr"}}

\* what the device may answer to an operation
ClientResponses(op) ==
    WithHttp(CASE op = "login" -> Responses(Payloads("sid", ClientSids))
               [] op \in {"get_gramofonname", "get_name", "get_device_name"} ->
                    NameResponses
               [] op \in {"get_fonmac", "get_mac_address"} -> MacResponses
               [] OTHER -> Responses(Payloads("status", {"enable"})))

\* the session segment of the URL the operation posts to
OpUrlSid(c, op) ==
    CASE c.cls = "GramofonDevice" -> UrlSid(c.session_id)
      [] c.cls = "GramofonReset" -> ResetUrlSid(c.session_id)
      [] c.cls = "GramofonClient" -> ClientUrlSid(c.session_id)
      [] c.cls = "ConfigClient" -> ConfigUrlSid(c.session_id)
      [] c.cls = "set_name" -> SetNameUrlSid(op, c.session_id)

ApplyOp(c, op, resp) ==
    CASE c.cls = "GramofonDevice" -> DeviceOp(c, op, resp)
      [] c.cls = "GramofonReset" -> ResetOp(c, op, resp)
      [] c.cls = "GramofonClient" -> ClientOp(c, op, resp)
      [] c.cls = "ConfigClient" -> ConfigOp(c, op, resp)
      [] c.cls = "set_name" -> SetNameOp(c, op, resp)

\* the device granted the login: status 0 with a token, in a response the
\* class accepts (raise_for_status rejects a 4xx/5xx in the raising classes)
LoginGranted(cls, resp) ==
    GrantsLogin(resp) /\ (cls \in Raising => resp.httpOk)

\* the constructor: no session yet
NewClient(cls) ==
    /\ stage = "new"
    /\ stage' = "client"
    /\ client' = [NoClient EXCEPT !.cls = cls]
    /\ UNCHANGED <<scanVars, probe, devices, exitCode, hist, rpc, run>>

\* one operation on the object, from its request to its return
ClientCallOp(op, resp) ==
    /\ stage = "client"
    /\ MayCall(client, op)
    /\ client' =
         [ApplyOp(client, op, resp) EXCEPT
            !.op = op,
            !.url = OpUrlSid(client, op),
            !.resp = resp,
            !.before = client.granted,
            !.granted = IF op = "login" /\ LoginGranted(client.cls, resp)
                        THEN DictGet(resp.payload, "sid", NoneStr)
                        ELSE client.granted]
    /\ UNCHANGED <<stage, scanVars, probe, devices, exitCode, hist, rpc, run>>

InitClient == InitCommon /\ stage = "new"

NextClient ==
    \/ \E cls \in Classes : NewClient(cls)
    \/ \E op \in Ops(client.cls) : \E resp \in ClientResponses(op) : ClientCallOp(op, resp)

SpecClient == InitClient /\ [][NextClient]_vars

\* the response is status 0, accepted by the class, whatever its payload
StatusZero(cls, resp) ==
    /\ resp.kind = "json" /\ ~resp.error /\ resp.len > 0 /\ resp.code = 0
    /\ cls \in Raising => resp.httpOk

\* the response is [0]: status 0 and no second element
BareZero(cls, resp) == StatusZero(cls, resp) /\ resp.len = 1

\* the operations built on a call whose payload does not matter, and the two
\* calls of get_info
BareOps ==
    {"set_led", "reboot", "factory_reset", "set_name", "get_led_status",
     "get_gramofonname", "get_fonmac"}

\* what the caller of the operation sees as success: True from an operation
\* that returns a bool, a result other than None from one that returns the
\* result of the call, no exception from one that raises, and for the calls
\* of get_info the field they fetch being set
OpReportsSuccess(c) ==
    IF c.op = "get_gramofonname" THEN ~c.out.exc /\ c.name # NoneStr
    ELSE IF c.op = "get_fonmac" THEN ~c.out.exc /\ c.mac # NoneStr
    ELSE IF c.out.exc THEN FALSE
    ELSE IF c.out.val.t \in {"true", "false"} THEN c.out.val = PyBool(TRUE)
    ELSE IF c.cls \in Raising THEN TRUE
    ELSE c.out.val # PyNone

\* C11: an operation whose call is answered [0], status 0 with no second
\* element, reports success (set_led, reboot, factory_reset, set_name,
\* get_led_status and the calls of get_info), and an operation whose call is
\* answered by a failure does not, so that the two can be told apart.
C11_BareZeroIsSuccess ==
    client.op \in BareOps =>
        /\ BareZero(client.cls, client.resp) => OpReportsSuccess(client)
        /\ (~StatusZero(client.cls, client.resp)
              /\ client.op \notin {"get_gramofonname", "get_fonmac"})
             => ~OpReportsSuccess(client)

\* C12: the session segment of the URL of every call on a client object is
\* the 32 zero digits when no login has been granted on that object before
\* the call, and otherwise the token of the latest login granted before it.
C12_UrlSessionSegment ==
    client.op # "none" =>
        client.url = (IF client.before = NoneStr THEN ZeroSid ELSE client.before)

\* a second login replaced the token, and a later call carried the new one
C12_Witness ==
    /\ client.cls = "GramofonDevice"
    /\ client.op = "set_led"
    /\ client.before = SidOf(2)
    /\ client.url = SidOf(2)

\* the login response has status 0 and no token: no second element, a null or
\* empty payload, or a payload without the sid field
NoToken(resp) ==
    \/ resp.len = 1
    \/ resp.payload = PyNone
    \/ resp.payload.t = "dict" /\ ~HasKey(resp.payload, "sid")

\* C13: a login answered with status 0 and no token fails: the login of
\* either GramofonClient raises, GramofonDevice.login returns False, and the
\* stored session token is what it was before (unset on a fresh object).
C13_LoginWithoutTokenFails ==
    (/\ client.op = "login"
     /\ client.cls \in {"GramofonDevice", "GramofonClient", "ConfigClient"}
     /\ StatusZero(client.cls, client.resp)
     /\ NoToken(client.resp))
    => /\ IF client.cls \in Raising THEN client.out.exc
          ELSE client.out = Return(PyBool(FALSE))
       /\ client.session_id = client.before
       /\ client.granted = client.before

\* the first login of a GramofonClient is answered [0]
C13_Witness ==
    /\ client.cls = "GramofonClient"
    /\ client.op = "login"
    /\ BareZero(client.cls, client.resp)
    /\ client.before = NoneStr
    /\ client.session_id = NoneStr
    /\ client.out.exc

\* the first login of a GramofonDevice is answered [0, {}]
C13_WitnessDevice ==
    /\ client.cls = "GramofonDevice"
    /\ client.op = "login"
    /\ client.resp.len = 2 /\ client.resp.payload = PyDict({})
    /\ StatusZero(client.cls, client.resp)
    /\ client.session_id = NoneStr

\* the token a login response carries
TokenOf(resp) == DictGet(resp.payload, "sid", NoneStr)

\* C14: within one probe the calls go out in the order login, name fetch,
\* MAC fetch, each after the response to the one before it; the name and the
\* MAC fetch go out only after a granted login and carry its token in their
\* URL; when the login fails the login is the only call of the probe.
C14_CallOrder ==
    \A ip \in Addrs : probe[ip].pc # "none" =>
        LET p == probe[ip] IN
        /\ p.req.to = ip
        /\ p.pc = "login" =>
             hist = <<>> /\ p.req.method = "login" /\ p.req.sid = ZeroSid
        /\ p.pc = "name" =>
             /\ Len(hist) = 1 /\ GrantsLogin(hist[1])
             /\ p.req.method = "get_gramofonname" /\ p.req.sid = TokenOf(hist[1])
        /\ p.pc = "mac" =>
             /\ Len(hist) = 2 /\ GrantsLogin(hist[1])
             /\ p.req.method = "get_fonmac" /\ p.req.sid = TokenOf(hist[1])
        /\ p.pc \in {"finished", "consumed"} =>
             /\ Len(hist) \in 1 .. 3
             /\ ~GrantsLogin(hist[1]) => (Len(hist) = 1 /\ p.req.method = "login")
             /\ p.req.method # "login" =>
                  GrantsLogin(hist[1]) /\ p.req.sid = TokenOf(hist[1])
             /\ p.req.method = "get_fonmac" => Len(hist) = 3

\* a probe that made all three calls, the last with the token of the login
C14_Witness ==
    \E ip \in Addrs :
        /\ probe[ip].pc = "finished"
        /\ Len(hist) = 3
        /\ probe[ip].req = [to |-> ip, sid |-> SidOf(ip), method |-> "get_fonmac",
                            timeout |-> probe[ip].req.timeout]

\* C20: every network call of a probe is made with the timeout the probe was
\* given, check_ip_is_gramofon(ip, timeout) and --timeout.
C20_CallsUseProbeTimeout ==
    \A ip \in Addrs : probe[ip].pc # "none" =>
        probe[ip].req.timeout = probe[ip].timeout

\* the call got no usable answer: anything but status 0 with a payload
FetchFailed(resp) == ~(EnvelopeOk(resp) /\ resp.len = 2 /\ Truthy(resp.payload))

\* C15: every device the probe returns has a name and a MAC that are not
\* None; a field whose fetch failed reads "Unknown".
C15_ReturnedDeviceHasNameAndMac ==
    \A ip \in SeqRange(devices) :
        /\ probe[ip].name # NoneStr
        /\ probe[ip].mac # NoneStr
        /\ (Len(hist) >= 2 /\ FetchFailed(hist[2])) => probe[ip].name = Unknown
        /\ (Len(hist) >= 3 /\ FetchFailed(hist[3])) => probe[ip].mac = Unknown

\* the probe whose future the step consumes, if it consumes one
Consumes(ip) == probe[ip].pc = "finished" /\ probe'[ip].pc = "consumed"

\* C16: a device is appended to the list in the step that processes the
\* completion of its probe, after the devices of the completions processed
\* before and ahead of those processed later, and that list is what the scan
\* returns: its order is the order of completion, not the order of addresses.
C16_AppendedOnCompletion ==
    /\ [][\A ip \in Addrs : Consumes(ip) =>
            devices' = (IF probe[ip].result = "Device" THEN Append(devices, ip)
                        ELSE devices)]_vars
    /\ []((stage = "returned" /\ net.valid) => ret = devices)

\* a device is on the list while the probe of a lower address that is a
\* device too has not completed
C16_Witness ==
    /\ stage = "collect"
    /\ \E a \in SeqRange(submitted), b \in SeqRange(devices) :
        /\ a < b
        /\ IsDevice(a)
        /\ probe[a].pc \in {"queued", "login", "name", "mac"}

\* C17: the list of devices is written only by the thread that consumes the
\* completed probes, one probe at a time, and never by a step of a probe; at
\* every moment it holds each consumed device once and nothing else.
C17_SingleWriter ==
    /\ [][devices' # devices =>
            /\ stage = "collect"
            /\ \E ip \in Addrs :
                /\ Consumes(ip)
                /\ \A other \in Addrs \ {ip} : probe'[other] = probe[other]]_vars
    /\ [][(\E ip \in Running : probe'[ip] # probe[ip]) => devices' = devices]_vars
    /\ [](/\ Len(devices) = Cardinality(SeqRange(devices))
          /\ SeqRange(devices) =
               {ip \in Addrs : probe[ip].pc = "consumed" /\ probe[ip].result = "Device"})

\* a device is on the list, another found device waits to be consumed, and
\* every worker is inside a probe
C17_Witness ==
    /\ devices # <<>>
    /\ Cardinality(Running) = MaxWorkers
    /\ \E ip \in Addrs : probe[ip].pc = "finished" /\ probe[ip].result = "Device"

\* C18: the probes of a scan are isolated: every call of a probe goes to the
\* address of that probe and carries the anonymous session or the token that
\* address issued, a probe stores no other token, and a step changes the
\* device object of one probe only.
C18_ProbesAreIsolated ==
    /\ [](\A ip \in Addrs : probe[ip].pc \notin {"none", "queued"} =>
            /\ probe[ip].req.to = ip
            /\ probe[ip].req.sid \in {ZeroSid, SidOf(ip)}
            /\ probe[ip].session_id \in {NoneStr, SidOf(ip)}
            /\ \A other \in Addrs \ {ip} :
                 probe[other].session_id # NoneStr =>
                     probe[ip].req.sid # probe[other].session_id)
    /\ [][\A ip \in Addrs : probe'[ip] # probe[ip] =>
            \A other \in Addrs \ {ip} : probe'[other] = probe[other]]_vars

\* two probes are in get_info at once, each with the token of its own host
C18_Witness ==
    \E a, b \in Running :
        /\ a # b
        /\ probe[a].req.sid = SidOf(a)
        /\ probe[b].req.sid = SidOf(b)

\* the scan ends for every input, and by then every host of the range has
\* been taken from the queue, probed and consumed
ScanTerminates ==
    /\ <>(stage = "returned")
    /\ []((stage = "returned" /\ net.valid) =>
            /\ queue = <<>>
            /\ \A ip \in SeqRange(Hosts(net)) : probe[ip].pc = "consumed")

\* a login that times out ends the probe with None; a name call that times
\* out leaves the name unset, and a probe that ends without a name ends
\* with None
TimedOutLoginOrName ==
    /\ [][\A ip \in Addrs :
            /\ ProbeLogin(ip, NetErr) =>
                 (probe'[ip].pc = "finished" /\ probe'[ip].result = "None")
            /\ ProbeName(ip, NetErr) => probe'[ip].name = NoneStr]_vars
    /\ [](\A ip \in Addrs :
            (probe[ip].pc \in {"finished", "consumed"} /\ probe[ip].name = NoneStr)
                => probe[ip].result = "None")

Typed ==
    {"yes", " YES ", "no", "", "Gramofon", " Gramofon ", "gramofon",
     "Unknown Device", "None", "RESET", " RESET ", "reset"}

\* str.strip() on the strings of Typed
Strip(str) ==
    CASE str = " YES " -> "YES"
      [] str = " Gramofon " -> "Gramofon"
      [] str = " RESET " -> "RESET"
      [] OTHER -> str

\* str.lower() on the strings of Typed and their stripped forms
Lower(str) ==
    CASE str = "YES" -> "yes"
      [] str = " YES " -> " yes "
      [] str = "Gramofon" -> "gramofon"
      [] str = " Gramofon " -> " gramofon "
      [] str = "Unknown Device" -> "unknown device"
      [] str = "None" -> "none"
      [] str = "RESET" -> "reset"
      [] str = " RESET " -> " reset "
      [] OTHER -> str

toolFrame == <<stage, scanVars, probe, devices, exitCode, hist, rpc, client>>

\* the tool sends a call and goes on, or returns
Goes(r, pc) == run' = [r EXCEPT !.pc = pc]
Exits(r, code) == run' = [r EXCEPT !.pc = "done", !.exit = code]
Sent(r, method) == [r EXCEPT !.calls = Append(r.calls, method)]

(***************************************************************************)
(* gramofon_factory_reset.py: main, perform_reset and confirm_reset.       *)
(***************************************************************************)
\* GramofonReset.get_device_info, first call
ResetGetName(name, resp) ==
    LET result == ResetCall(resp).val IN
    IF ~Truthy(result) THEN [exc |-> FALSE, val |-> name]
    ELSE IF result.t = "other" THEN [exc |-> TRUE, val |-> name]
    ELSE [exc |-> FALSE, val |-> DictGet(result, "spotifyname", Unknown)]

\* GramofonReset.get_device_info, second call
ResetGetMac(mac, resp) ==
    LET result == ResetCall(resp).val IN
    IF ~Truthy(result) THEN [exc |-> FALSE, val |-> mac]
    ELSE IF result.t = "other" THEN [exc |-> TRUE, val |-> mac]
    ELSE [exc |-> FALSE, val |-> DictGet(result, "fonmac", Unknown)]

\* confirm_reset: `response1 = input(...).strip().lower()`, `response1 != "yes"`
FirstConfirm(typed) == Lower(Strip(typed)) = "yes"

\* a final confirmation that takes any answer
NameConfirmAny(typed, name) == TRUE

\* `response2 = input(...).strip()`, `response2 == device_name`; the name is
\* None when --yes runs on after a failed get_device_info
NameConfirm(typed, name) == name # NoneStr /\ Strip(typed) = name

\* main: `resetter = GramofonReset(ip, timeout)`, with or without --yes
ResetMain(yes) ==
    /\ stage = "tool"
    /\ run.tool = "none"
    /\ run' = [NoRun EXCEPT !.tool = "factory_reset", !.pc = "login", !.yes = yes]
    /\ UNCHANGED toolFrame

\* `if not resetter.login(): return 1`; an exception ends the tool with 1
\* (caught in main, or as the exit status of the interpreter under --yes)
ResetToolLogin(resp) ==
    /\ run.tool = "factory_reset" /\ run.pc = "login"
    /\ LET r == ResetLogin(run.session_id, resp)
           t == Sent([run EXCEPT !.session_id = r.session_id], "login")
       IN IF r.exc \/ ~r.ok THEN Exits(t, 1) ELSE Goes(t, "name")
    /\ UNCHANGED toolFrame

\* resetter.get_device_info(), the get_gramofonname call
ResetToolName(resp) ==
    /\ run.tool = "factory_reset" /\ run.pc = "name"
    /\ LET r == ResetGetName(run.name, resp)
           t == Sent([run EXCEPT !.name = r.val], "get_gramofonname")
       IN IF r.exc THEN Exits(t, 1) ELSE Goes(t, "mac")
    /\ UNCHANGED toolFrame

\* the get_fonmac call; perform_reset replaces the fields when get_device_info
\* returned False, main under --yes ignores what it returned
ResetToolMac(resp) ==
    /\ run.tool = "factory_reset" /\ run.pc = "mac"
    /\ LET r == ResetGetMac(run.mac, resp)
           t == Sent([run EXCEPT !.mac = r.val], "get_fonmac")
       IN IF r.exc THEN Exits(t, 1)
          ELSE IF run.yes THEN Goes(t, "confirm2")
          ELSE IF t.name # NoneStr THEN Goes(t, "confirm1")
          ELSE Goes([t EXCEPT !.name = "Unknown Device", !.mac = Unknown], "confirm1")
    /\ UNCHANGED toolFrame

\* confirm_reset, the first question
ResetToolConfirm1(typed) ==
    /\ run.tool = "factory_reset" /\ run.pc = "confirm1"
    /\ LET t == [run EXCEPT !.typed = Append(run.typed, typed)]
       IN IF FirstConfirm(typed) THEN Goes(t, "confirm2") ELSE Exits(t, 0)
    /\ UNCHANGED toolFrame

\* the device name typed in: confirm_reset, or main under --yes
ResetToolConfirm2(typed) ==
    /\ run.tool = "factory_reset" /\ run.pc = "confirm2"
    /\ LET t == [run EXCEPT !.typed = Append(run.typed, typed)]
       IN IF NameConfirm(typed, run.name) THEN Goes(t, "reset") ELSE Exits(t, 0)
    /\ UNCHANGED toolFrame

\* `if resetter.factory_reset(): return 0`, `else: return 1`
ResetToolReset(resp) ==
    /\ run.tool = "factory_reset" /\ run.pc = "reset"
    /\ LET t == Sent(run, "reset_defaults")
       IN IF ResetCall(resp).val # PyNone THEN Exits(t, 0) ELSE Exits(t, 1)
    /\ UNCHANGED toolFrame

(***************************************************************************)
(* gramofon_config.py: the commands reset and system.                      *)
(***************************************************************************)
\* a confirmation that ignores case and surrounding blanks
ResetTypedLoosely(typed) == Lower(Strip(typed)) = "reset"

\* `confirm == 'RESET'`, on the string as typed
ResetTyped(typed) == typed = "RESET"

\* cmd_system: `confirm.lower() == 'yes'`
RebootTyped(typed) == Lower(typed) = "yes"

\* cmd_reset: the confirmation comes first; `if confirm != 'RESET': return 0`
CmdReset(typed) ==
    /\ stage = "tool"
    /\ run.tool = "none"
    /\ LET t == [NoRun EXCEPT !.tool = "config_reset", !.typed = <<typed>>]
       IN IF ResetTyped(typed) THEN Goes(t, "login") ELSE Exits(t, 0)
    /\ UNCHANGED toolFrame

\* cmd_system --reboot or --reset: client.login() comes first
CmdSystem(arg) ==
    /\ stage = "tool"
    /\ run.tool = "none"
    /\ run' = [NoRun EXCEPT !.tool = "config_system", !.arg = arg, !.pc = "login"]
    /\ UNCHANGED toolFrame

\* client.login() of either command; GramofonAPIError ends it with 1
CmdLogin(resp) ==
    /\ run.tool \in {"config_reset", "config_system"} /\ run.pc = "login"
    /\ LET r == ConfigLogin(run.session_id, resp)
           t == Sent([run EXCEPT !.session_id = r.session_id], "login")
       IN IF r.exc THEN Exits(t, 1)
          ELSE IF run.tool = "config_reset" THEN Goes(t, "reset")
          ELSE Goes(t, "confirm")
    /\ UNCHANGED toolFrame

\* cmd_system: the question of the chosen action; "Cancelled" returns 0
CmdSystemConfirm(typed) ==
    /\ run.tool = "config_system" /\ run.pc = "confirm"
    /\ LET t == [run EXCEPT !.typed = Append(run.typed, typed)]
       IN IF run.arg = "reboot"
          THEN IF RebootTyped(typed) THEN Goes(t, "reboot") ELSE Exits(t, 0)
          ELSE IF ResetTyped(typed) THEN Goes(t, "reset") ELSE Exits(t, 0)
    /\ UNCHANGED toolFrame

\* `if client.reset_to_defaults():` return 0, else 1; likewise client.reboot()
CmdSend(resp) ==
    /\ run.tool \in {"config_reset", "config_system"}
    /\ run.pc \in {"reset", "reboot"}
    /\ LET t == Sent(run, IF run.pc = "reset" THEN "reset_defaults" ELSE "reboot")
       IN IF ~ConfigCall(resp).exc THEN Exits(t, 0) ELSE Exits(t, 1)
    /\ UNCHANGED toolFrame

(***************************************************************************)
(* The setup workflows: GramofonClient.configure_device of                 *)
(* gramofon_client.py and cmd_setup of gramofon_config.py.                 *)
(***************************************************************************)
\* the call is logged with whether the operation that made it returned
Called(r, method, ok) == [Sent(r, method) EXCEPT !.outs = Append(r.outs, ok)]

\* results['steps_completed'].append(step)
StepCompleted(r, step) == [r EXCEPT !.steps = Append(r.steps, step)]

\* GramofonClient.scan_networks after get_ssids:
\* `result.get("results", []) if result else []` raises on a non-dict
ScanNetworksReturns(resp) ==
    LET r == ClientCall(resp) IN ~r.exc /\ r.val.t # "other"

\* a workflow that counts a failed reload as a failure
AfterReloadStrict(r, ok) ==
    [(IF ok THEN StepCompleted(r, "wifi_reload") ELSE r)
        EXCEPT !.success = ok, !.pc = "done"]

\* configure_device, step 4 and the end: `results['success'] = True`
AfterReload(r, ok) ==
    [(IF ok THEN StepCompleted(r, "wifi_reload") ELSE r)
        EXCEPT !.success = TRUE, !.pc = "done"]

\* client.configure_device(ssid, password, device_name, scan_first)
ConfigureDevice(scan_first) ==
    /\ stage = "tool"
    /\ run.tool = "none"
    /\ run' = [NoRun EXCEPT !.tool = "configure_device", !.pc = "login",
                            !.yes = scan_first]
    /\ UNCHANGED toolFrame

\* step 1, self.login(): on an exception `return results`
ConfigureLogin(resp) ==
    /\ run.tool = "configure_device" /\ run.pc = "login"
    /\ LET r == ClientLogin(run.session_id, resp)
           t == Called([run EXCEPT !.session_id = r.session_id], "login", ~r.exc)
       IN IF r.exc THEN Goes(t, "done")
          ELSE Goes(StepCompleted(t, "login"), IF run.yes THEN "ssid_scan" ELSE "wifi_config")
    /\ UNCHANGED toolFrame

\* step 2, scan_networks: the ssid_scan call; a failure is only printed
ConfigureScanStart(resp) ==
    /\ run.tool = "configure_device" /\ run.pc = "ssid_scan"
    /\ LET ok == ~ClientCall(resp).exc
           t == Called(run, "ssid_scan", ok)
       IN IF ok THEN Goes(t, "get_ssids") ELSE Goes(t, "wifi_config")
    /\ UNCHANGED toolFrame

\* step 2, scan_networks: the get_ssids call (the list it returns is a list
\* of dicts)
ConfigureScanResults(resp) ==
    /\ run.tool = "configure_device" /\ run.pc = "get_ssids"
    /\ LET ok == ScanNetworksReturns(resp)
           t == Called(run, "get_ssids", ok)
       IN IF ok THEN Goes(StepCompleted(t, "scan"), "wifi_config")
          ELSE Goes(t, "wifi_config")
    /\ UNCHANGED toolFrame

\* step 3, configure_wifi_simple: on an exception `return results`
ConfigureWifi(resp) ==
    /\ run.tool = "configure_device" /\ run.pc = "wifi_config"
    /\ LET ok == ~ClientCall(resp).exc
           t == Called(run, "doeasysetup", ok)
       IN IF ok THEN Goes(StepCompleted(t, "wifi_config"), "wifi_reload")
          ELSE Goes(t, "done")
    /\ UNCHANGED toolFrame

\* step 4, reload_wifi (True, or False on any exception of the call), and
\* `return results`
ConfigureReload(resp) ==
    /\ run.tool = "configure_device" /\ run.pc = "wifi_reload"
    /\ LET ok == ~ClientCall(resp).exc
       IN run' = AfterReload(Called(run, "reload", ok), ok)
    /\ UNCHANGED toolFrame

\* a setup that reloads whatever configure_wifi did
SetupAfterWifiAlwaysReloads(r, ok) == [r EXCEPT !.pc = "wifi_reload"]

\* cmd_setup, step 2: an exception of configure_wifi leaves the try block
\* before reload_wifi, `return 1`
SetupAfterWifi(r, ok) ==
    IF ok THEN [r EXCEPT !.pc = "wifi_reload"]
    ELSE [r EXCEPT !.pc = "done", !.exit = 1]

\* cmd_setup
CmdSetup ==
    /\ stage = "tool"
    /\ run.tool = "none"
    /\ run' = [NoRun EXCEPT !.tool = "config_setup", !.pc = "login"]
    /\ UNCHANGED toolFrame

\* step 1, client.login(): on an exception `return 1`
SetupLogin(resp) ==
    /\ run.tool = "config_setup" /\ run.pc = "login"
    /\ LET r == ConfigLogin(run.session_id, resp)
           t == Called([run EXCEPT !.session_id = r.session_id], "login", ~r.exc)
       IN IF r.exc THEN Exits(t, 1) ELSE Goes(t, "wifi_config")
    /\ UNCHANGED toolFrame

\* step 2, client.configure_wifi(...)
SetupWifi(resp) ==
    /\ run.tool = "config_setup" /\ run.pc = "wifi_config"
    /\ LET ok == ~ConfigCall(resp).exc
       IN run' = SetupAfterWifi(Called(run, "doeasysetup", ok), ok)
    /\ UNCHANGED toolFrame

\* step 3, client.reload_wifi(): either answer only prints, then `return 0`
SetupReload(resp) ==
    /\ run.tool = "config_setup" /\ run.pc = "wifi_reload"
    /\ Exits(Called(run, "reload", ~ConfigCall(resp).exc), 0)
    /\ UNCHANGED toolFrame

(***************************************************************************)
(* The connection tests: cmd_test of gramofon_config.py and main of        *)
(* test_gramofon_connection.py.  `outs` tells of each step whether it      *)
(* passed; `success` tells that the success summary was printed.           *)
(***************************************************************************)
\* the summary is printed and the test returns 0
Summary(r) == [r EXCEPT !.success = TRUE, !.pc = "done", !.exit = 0]

\* GramofonClient.get_device_name and get_mac_address of gramofon_config.py:
\* `result.get(.., "") if result else ""` raises when _call raised or
\* returned something that is not a dict
ConfigGetReturns(resp) ==
    LET r == ConfigCall(resp) IN ~r.exc /\ (Truthy(r.val) => r.val.t = "dict")

\* cmd_test
CmdTest ==
    /\ stage = "tool"
    /\ run.tool = "none"
    /\ run' = [NoRun EXCEPT !.tool = "config_test", !.pc = "http"]
    /\ UNCHANGED toolFrame

\* main of test_gramofon_connection.py
ConnectionTest ==
    /\ stage = "tool"
    /\ run.tool = "none"
    /\ run' = [NoRun EXCEPT !.tool = "connection_test", !.pc = "ping"]
    /\ UNCHANGED toolFrame

\* step 1 of the script: the return code of ping; an exception of
\* subprocess.run only prints a warning
ConnectionPing(rc) ==
    /\ run.tool = "connection_test" /\ run.pc = "ping"
    /\ LET t == Called(run, "ping", rc = "zero")
       IN IF rc = "nonzero" THEN Exits(t, 1) ELSE Goes(t, "http")
    /\ UNCHANGED toolFrame

\* `requests.get(f"http://{ip}", timeout=5)` of either test: any exception
\* returns 1, any HTTP status passes
TestHttp(ok) ==
    /\ run.tool \in {"config_test", "connection_test"} /\ run.pc = "http"
    /\ LET t == Called(run, "http_get", ok)
       IN IF ok THEN Goes(t, "login") ELSE Exits(t, 1)
    /\ UNCHANGED toolFrame

\* cmd_test, test 2: client.login()
TestLogin(resp) ==
    /\ run.tool = "config_test" /\ run.pc = "login"
    /\ LET r == ConfigLogin(run.session_id, resp)
           t == Called([run EXCEPT !.session_id = r.session_id], "login", ~r.exc)
       IN IF r.exc THEN Exits(t, 1) ELSE Goes(t, "status")
    /\ UNCHANGED toolFrame

\* cmd_test, test 3: client.get_status()
TestStatus(resp) ==
    /\ run.tool = "config_test" /\ run.pc = "status"
    /\ LET ok == ~ConfigCall(resp).exc
           t == Called(run, "status", ok)
       IN IF ok THEN Goes(t, "name") ELSE Exits(t, 1)
    /\ UNCHANGED toolFrame

\* cmd_test, test 4: client.get_device_name(); its exception skips
\* get_mac_address and only prints a warning
TestName(resp) ==
    /\ run.tool = "config_test" /\ run.pc = "name"
    /\ LET ok == ConfigGetReturns(resp)
           t == Called(run, "get_gramofonname", ok)
       IN run' = IF ok THEN [t EXCEPT !.pc = "mac"] ELSE Summary(t)
    /\ UNCHANGED toolFrame

\* cmd_test, test 4: client.get_mac_address(), then the summary
TestMac(resp) ==
    /\ run.tool = "config_test" /\ run.pc = "mac"
    /\ run' = Summary(Called(run, "get_fonmac", ConfigGetReturns(resp)))
    /\ UNCHANGED toolFrame

\* jsonrpc_call of test_gramofon_connection.py returns response.json()
\* unexamined; the script reads result[0] and result[1] itself
ScriptStatusOk(resp) == resp.kind = "json" /\ resp.len > 0 /\ resp.code = 0
ScriptInfoOk(resp) == ScriptStatusOk(resp) /\ resp.len > 1 /\ resp.payload.t = "dict"

\* step 3 of the script: `result["result"][1].get("sid")` when the result
\* array has two elements, whatever its status code
ScriptLogin(resp) ==
    IF resp.kind = "json" /\ resp.len > 1 /\ resp.payload.t = "dict"
    THEN DictGet(resp.payload, "sid", NoneStr)
    ELSE NoneStr

\* step 3 of the script: no session id, or any exception, returns 1
ConnectionLogin(resp) ==
    /\ run.tool = "connection_test" /\ run.pc = "login"
    /\ LET sid == ScriptLogin(resp)
           t == Called([run EXCEPT !.session_id = sid], "login", sid # NoneStr)
       IN IF sid # NoneStr THEN Goes(t, "status") ELSE Exits(t, 1)
    /\ UNCHANGED toolFrame

\* steps 4 and 5 of the script: every outcome only prints
ConnectionStatus(resp) ==
    /\ run.tool = "connection_test" /\ run.pc = "status"
    /\ Goes(Called(run, "status", ScriptStatusOk(resp)), "mac")
    /\ UNCHANGED toolFrame

ConnectionMac(resp) ==
    /\ run.tool = "connection_test" /\ run.pc = "mac"
    /\ Goes(Called(run, "get_fonmac", ScriptInfoOk(resp)), "name")
    /\ UNCHANGED toolFrame

\* step 6 of the script, then the summary
ConnectionName(resp) ==
    /\ run.tool = "connection_test" /\ run.pc = "name"
    /\ run' = Summary(Called(run, "get_gramofonname", ScriptInfoOk(resp)))
    /\ UNCHANGED toolFrame

\* what the device may answer to a call of a tool
ToolResponses(method) ==
    CASE method = "login" -> Responses(Payloads("sid", {SidOf(1)}))
      [] method = "get_gramofonname" -> NameResponses
      [] method = "get_fonmac" -> MacResponses
      [] OTHER -> Responses(Payloads("status", {"enable"}))

InitTools == InitCommon /\ stage = "tool"

NextTools ==
    \/ \E yes \in BOOLEAN : ResetMain(yes)
    \/ \E resp \in ToolResponses("login") : ResetToolLogin(resp)
    \/ \E resp \in ToolResponses("get_gramofonname") : ResetToolName(resp)
    \/ \E resp \in ToolResponses("get_fonmac") : ResetToolMac(resp)
    \/ \E typed \in Typed : ResetToolConfirm1(typed)
    \/ \E typed \in Typed : ResetToolConfirm2(typed)
    \/ \E resp \in ToolResponses("reset_defaults") : ResetToolReset(resp)
    \/ \E typed \in Typed : CmdReset(typed)
    \/ \E arg \in {"reboot", "reset"} : CmdSystem(arg)
    \/ \E resp \in ToolResponses("login") : CmdLogin(resp)
    \/ \E typed \in Typed : CmdSystemConfirm(typed)
    \/ \E resp \in ToolResponses("reset_defaults") : CmdSend(resp)
    \/ \E scan_first \in BOOLEAN : ConfigureDevice(scan_first)
    \/ \E resp \in ToolResponses("login") : ConfigureLogin(resp)
    \/ \E resp \in ToolResponses("ssid_scan") : ConfigureScanStart(resp)
    \/ \E resp \in ToolResponses("get_ssids") : ConfigureScanResults(resp)
    \/ \E resp \in ToolResponses("doeasysetup") : ConfigureWifi(resp)
    \/ \E resp \in ToolResponses("reload") : ConfigureReload(resp)
    \/ CmdSetup
    \/ \E resp \in ToolResponses("login") : SetupLogin(resp)
    \/ \E resp \in ToolResponses("doeasysetup") : SetupWifi(resp)
    \/ \E resp \in ToolResponses("reload") : SetupReload(resp)
    \/ CmdTest
    \/ ConnectionTest
    \/ \E rc \in {"zero", "nonzero", "raised"} : ConnectionPing(rc)
    \/ \E ok \in BOOLEAN : TestHttp(ok)
    \/ \E resp \in ToolResponses("login") : TestLogin(resp)
    \/ \E resp \in ToolResponses("status") : TestStatus(resp)
    \/ \E resp \in ToolResponses("get_gramofonname") : TestName(resp)
    \/ \E resp \in ToolResponses("get_fonmac") : TestMac(resp)
    \/ \E resp \in ToolResponses("login") : ConnectionLogin(resp)
    \/ \E resp \in ToolResponses("status") : ConnectionStatus(resp)
    \/ \E resp \in ToolResponses("get_fonmac") : ConnectionMac(resp)
    \/ \E resp \in ToolResponses("get_gramofonname") : ConnectionName(resp)

SpecTools == InitTools /\ [][NextTools]_vars

\* the run sent the call
HasSent(method) == \E i \in 1 .. Len(run.calls) : run.calls[i] = method

\* the user answered yes / typed the name, whitespace around it aside
AnsweredYes(typed) == typed \in {"yes", " YES "}
TypedName(typed, name) ==
    \/ typed = name
    \/ typed = " Gramofon " /\ name = "Gramofon"

\* C21: the factory reset tool sends reset_defaults only after the
\* confirmations: without --yes the user answered yes and then typed the
\* device name, with --yes the user typed the device name.  A run that ends
\* at a prompt on any other input has sent no reset call and returns 0.
C21_ResetNeedsConfirmation ==
    run.tool = "factory_reset" =>
        /\ (run.pc = "reset" \/ HasSent("reset_defaults")) =>
             IF run.yes
             THEN Len(run.typed) = 1 /\ TypedName(run.typed[1], run.name)
             ELSE /\ Len(run.typed) = 2
                  /\ AnsweredYes(run.typed[1])
                  /\ TypedName(run.typed[2], run.name)
        /\ (/\ run.pc = "done"
            /\ run.typed # <<>>
            /\ \/ ~TypedName(run.typed[Len(run.typed)], run.name)
               \/ (~run.yes /\ Len(run.typed) = 1))
             => (~HasSent("reset_defaults") /\ run.exit = 0)

\* a reset sent under --yes after the name was typed
C21_Witness ==
    /\ run.tool = "factory_reset"
    /\ run.yes
    /\ HasSent("reset_defaults")
    /\ run.typed = <<"Gramofon">>

\* a run without --yes that ended at the second prompt on a wrong name
C21_WitnessDeclined ==
    /\ run.tool = "factory_reset"
    /\ ~run.yes
    /\ run.pc = "done"
    /\ Len(run.typed) = 2
    /\ run.exit = 0

\* the last string the user typed
LastTyped == run.typed[Len(run.typed)]

\* C22: gramofon_config sends reset_defaults only after the user typed
\* exactly RESET, in the reset command and in system --reset; a reset
\* command whose confirmation was declined has made no call and returns 0.
C22_ResetNeedsResetWord ==
    run.tool \in {"config_reset", "config_system"} =>
        /\ (run.pc = "reset" \/ HasSent("reset_defaults")) =>
             (run.typed # <<>> /\ LastTyped = "RESET")
        /\ (run.tool = "config_reset" /\ run.typed[1] # "RESET") =>
             (run.calls = <<>> /\ run.pc = "done" /\ run.exit = 0)
        /\ (run.tool = "config_system" /\ run.arg = "reset" /\ run.pc = "done"
              /\ run.typed # <<>> /\ LastTyped # "RESET") =>
             (~HasSent("reset_defaults") /\ run.exit = 0)

\* system --reset sent the reset after RESET was typed
C22_Witness ==
    /\ run.tool = "config_system"
    /\ run.arg = "reset"
    /\ run.calls = <<"login", "reset_defaults">>
    /\ run.typed = <<"RESET">>

\* the reset command was declined with the word in lower case
C22_WitnessDeclined ==
    /\ run.tool = "config_reset"
    /\ run.typed = <<"reset">>
    /\ run.pc = "done"

\* C23: reboot, reset_to_defaults and reload_wifi of the two GramofonClient
\* never raise, return True only when the device answered with status 0
\* and return False for every failure: a network error, an error field, a
\* status other than 0, a response with no status code.
C23_CommandsReportAcceptance ==
    (client.cls \in Raising
       /\ client.op \in {"reboot", "reset_to_defaults", "reload_wifi"}) =>
        /\ ~client.out.exc
        /\ client.out.val \in {PyBool(TRUE), PyBool(FALSE)}
        /\ client.out.val = PyBool(TRUE) <=> StatusZero(client.cls, client.resp)

(***************************************************************************)
(* gramofon_discovery.py, main after the scan: the actions on the list of  *)
(* discovered devices.  run.calls logs the requests of the LED loop with   *)
(* what set_led returned.                                                  *)
(***************************************************************************)
\* GramofonDevice.set_led: `return result is not None`
SetLed(resp) == DeviceCall(resp).val # PyNone

\* a loop that leaves at the first device whose call failed
LedLoopStopsOnFailure(r, devs, req, ok) ==
    LET t == Sent(r, [req |-> req, status |-> r.arg, ok |-> ok])
    IN IF ok /\ Len(t.calls) < Len(devs) THEN t
       ELSE [t EXCEPT !.pc = "done", !.exit = 0]

\* one iteration of `for device in devices: if device.set_led(..)`: either
\* branch only prints; after the last device `return 0`
LedLoop(r, devs, req, ok) ==
    LET t == Sent(r, [req |-> req, status |-> r.arg, ok |-> ok])
    IN IF Len(t.calls) < Len(devs) THEN t
       ELSE [t EXCEPT !.pc = "done", !.exit = 0]

\* `if not devices: ... return 1`
MainNoDevices ==
    /\ stage = "returned" /\ run.tool = "none"
    /\ ret = <<>>
    /\ Exits([NoRun EXCEPT !.tool = "discovery"], 1)
    /\ UNCHANGED toolFrame

\* `if args.led_on:` or `if args.led_off:` with devices found; set_led sends
\* "status": "enable" if enabled else "disable"
MainLed(enabled) ==
    /\ stage = "returned" /\ run.tool = "none"
    /\ ret # <<>>
    /\ run' = [NoRun EXCEPT !.tool = "led", !.arg = IF enabled THEN "enable" ELSE "disable",
                            !.pc = "loop"]
    /\ UNCHANGED toolFrame

\* the switch call of the next device of the list returns
LedStep(resp) ==
    /\ run.tool = "led" /\ run.pc = "loop"
    /\ LET ip == ret[Len(run.calls) + 1]
       IN run' = LedLoop(run, ret, DeviceRequest(ip, probe[ip].session_id, "switch"),
                         SetLed(resp))
    /\ UNCHANGED toolFrame

NextLed ==
    \/ NextFair
    \/ MainNoDevices
    \/ \E enabled \in BOOLEAN : MainLed(enabled)
    \/ \E resp \in ToolResponses("switch") : LedStep(resp)

SpecLed == Init /\ [][NextLed]_vars

\* the addresses the LED loop has called, in call order
LedCalled == [i \in 1 .. Len(run.calls) |-> run.calls[i].req.to]

\* C24: with --led-on or --led-off the switch call goes once to every
\* discovered device, in the order of the result list, with the device's
\* own session and the status asked for; a failed call does not stop the
\* loop, and the tool returns 0
C24_LedLoopCallsEveryDevice ==
    run.tool = "led" =>
        /\ Len(run.calls) <= Len(ret)
        /\ LedCalled = SubSeq(ret, 1, Len(run.calls))
        /\ \A i \in 1 .. Len(run.calls) :
               /\ run.calls[i].req.method = "switch"
               /\ run.calls[i].req.sid = UrlSid(probe[ret[i]].session_id)
               /\ run.calls[i].status = run.arg
        /\ run.pc = "done" <=> Len(run.calls) = Len(ret)
        /\ run.pc = "done" => run.exit = 0

\* the loop ended after a failed call on the first of two devices
C24_Witness ==
    /\ run.tool = "led" /\ run.pc = "done" /\ run.exit = 0
    /\ Len(ret) = 2 /\ Len(run.calls) = 2
    /\ ~run.calls[1].ok
    /\ run.arg = "disable"

\* the operation behind the call returned without raising
CallOk(method) ==
    \E i \in 1 .. Len(run.calls) : run.calls[i] = method /\ run.outs[i]
CallFailed(method) ==
    \E i \in 1 .. Len(run.calls) : run.calls[i] = method /\ ~run.outs[i]

\* the step of configure_device succeeded
StepOk(step) ==
    CASE step = "login" -> CallOk("login")
      [] step = "scan" -> CallOk("ssid_scan") /\ CallOk("get_ssids")
      [] step = "wifi_config" -> CallOk("doeasysetup")
      [] step = "wifi_reload" -> CallOk("reload")

\* C25: configure_device reports success exactly when the login step and
\* the WiFi configuration step succeeded, whatever the scan and the reload
\* did; steps_completed is the list of the succeeded steps in the order
\* login, scan, wifi_config, wifi_reload
C25_SuccessIsLoginAndWifiConfig ==
    run.tool = "configure_device" =>
        /\ run.steps = SelectSeq(<<"login", "scan", "wifi_config", "wifi_reload">>, StepOk)
        /\ run.pc = "done" =>
              (run.success <=> (StepOk("login") /\ StepOk("wifi_config")))
        /\ run.pc # "done" => ~run.success

\* success although the scan and the reload failed
C25_Witness ==
    /\ run.tool = "configure_device" /\ run.pc = "done" /\ run.success
    /\ CallFailed("get_ssids") /\ CallFailed("reload")
    /\ run.steps = <<"login", "wifi_config">>

\* failure although the scan succeeded
C25_WitnessFailure ==
    /\ run.tool = "configure_device" /\ run.pc = "done" /\ ~run.success
    /\ run.steps = <<"login", "scan">>

SetupTools == {"configure_device", "config_setup"}

\* the workflow reported failure: success False, or exit code 1
ReportsFailure ==
    IF run.tool = "configure_device" THEN ~run.success ELSE run.exit = 1

\* C26: in configure_device and cmd_setup the WiFi configuration call
\* follows a successful login and the reload call follows a successful
\* configuration call; after a failed login no further call is sent, after
\* a failed configuration call no reload is sent and failure is reported
C26_SetupCallOrder ==
    run.tool \in SetupTools =>
        \A i \in 1 .. Len(run.calls) :
            /\ run.calls[i] = "doeasysetup" =>
                   \E j \in 1 .. (i - 1) : run.calls[j] = "login" /\ run.outs[j]
            /\ run.calls[i] = "reload" =>
                   \E j \in 1 .. (i - 1) : run.calls[j] = "doeasysetup" /\ run.outs[j]
            /\ (run.calls[i] = "login" /\ ~run.outs[i]) =>
                   /\ Len(run.calls) = i
                   /\ run.pc = "done" /\ ReportsFailure
            /\ (run.calls[i] = "doeasysetup" /\ ~run.outs[i]) =>
                   /\ Len(run.calls) = i
                   /\ run.pc = "done" /\ ReportsFailure

\* cmd_setup ended with 1 after a failed configuration call
C26_Witness ==
    /\ run.tool = "config_setup" /\ run.pc = "done" /\ run.exit = 1
    /\ run.calls = <<"login", "doeasysetup">> /\ run.outs = <<TRUE, FALSE>>

\* configure_device ended after a failed login
C26_WitnessLogin ==
    /\ run.tool = "configure_device" /\ run.pc = "done"
    /\ run.calls = <<"login">> /\ run.outs = <<FALSE>>

TestTools == {"config_test", "connection_test"}

\* C27: the connection test prints its success summary and returns 0 only
\* when every step it ran passed
C27_SummaryOnlyIfAllPassed ==
    (run.tool \in TestTools /\ run.success) =>
        \A i \in 1 .. Len(run.outs) : run.outs[i]

\* the login of the object succeeded: it returned True, or the token
LoginSucceeded(c) ==
    /\ c.op = "login" /\ ~c.out.exc
    /\ c.out.val \notin {PyNone, PyBool(FALSE)}

\* C28: the session token stored on a client object changes only in a
\* login that succeeded (one the device granted and the object reported as
\* a success); a failed login and every other operation, whether it
\* succeeds or fails, leave the token as it was
C28_TokenChangesOnlyInLogin ==
    [][(stage = "client" /\ client'.session_id # client.session_id) =>
          /\ LoginSucceeded(client')
          /\ LoginGranted(client'.cls, client'.resp)
          /\ client'.session_id = TokenOf(client'.resp)]_vars

\* a failed second login left the first token in place
C28_Witness ==
    /\ client.op = "login" /\ ~LoginSucceeded(client)
    /\ client.before # NoneStr
    /\ client.session_id = client.before

\* an operation other than login failed on an object that holds a token
C28_WitnessOther ==
    /\ client.op \notin {"none", "login"} /\ ~StatusZero(client.cls, client.resp)
    /\ client.session_id # NoneStr

\* the probe of ip ended and returned a device, or None
ReturnedDevice(ip) == ip \in Probed /\ probe[ip].result = "Device"
ReturnedNone(ip) == ip \in Probed /\ probe[ip].result = "None"

\* C29: a device the probe returns (and so every element of the device
\* list) holds the token a successful login stored and a name that is not
\* None; main in --ip mode returns 1 exactly when the probe returned None
C29_ReturnedDeviceIsLoggedInAndNamed ==
    /\ \A ip \in Addrs : ReturnedDevice(ip) =>
           /\ GrantsLogin(hist[1])
           /\ probe[ip].session_id = TokenOf(hist[1])
           /\ probe[ip].session_id # NoneStr
           /\ probe[ip].name # NoneStr
    /\ \A i \in 1 .. Len(devices) : ReturnedDevice(devices[i])
    /\ exitCode = 1 <=> \E ip \in Addrs : ReturnedNone(ip) /\ probe[ip].pc = "consumed"
    /\ exitCode \in {-1, 1}
    /\ stage = "found" <=> \E ip \in Addrs : ReturnedDevice(ip) /\ probe[ip].pc = "consumed"

\* main went on with a device whose MAC could not be fetched
C29_Witness ==
    /\ stage = "found" /\ exitCode = -1
    /\ \E ip \in Addrs :
           /\ devices = <<ip>> /\ ReturnedDevice(ip)
           /\ probe[ip].name = "Gramofon" /\ probe[ip].mac = NoneStr

\* main returned 1 after a login that succeeded and a name call that failed
C29_WitnessExit ==
    /\ stage = "exit" /\ exitCode = 1 /\ devices = <<>>
    /\ \E ip \in Addrs : ReturnedNone(ip) /\ probe[ip].session_id # NoneStr

\* the same for a scan: the list scan_network returns
ScanListIsLoggedInAndNamed ==
    \A i \in 1 .. Len(ret) :
        /\ probe[ret[i]].result = "Device"
        /\ probe[ret[i]].session_id = SidOf(ret[i])
        /\ probe[ret[i]].name # NoneStr

\* the field of the payload, "Unknown" when the payload lacks it, is empty
\* or is absent
FieldOrUnknown(resp, key) ==
    IF resp.len = 2 /\ resp.payload.t = "dict"
    THEN DictGet(resp.payload, key, Unknown)
    ELSE Unknown

\* C30: after a name call of get_info that the device answered with status 0
\* the name is the payload's spotifyname, or "Unknown" when the payload has
\* no such field, is empty or is absent; likewise the MAC after the MAC call
C30_FetchedFieldOrUnknown ==
    (client.cls = "GramofonDevice" /\ StatusZero(client.cls, client.resp)
       /\ ~client.out.exc) =>
        /\ client.op = "get_gramofonname" =>
               client.name = FieldOrUnknown(client.resp, "spotifyname")
        /\ client.op = "get_fonmac" =>
               client.mac = FieldOrUnknown(client.resp, "fonmac")

====
